---- MODULE Spec2Model ----
(***************************************************************************)
(* Keyset pagination for a document store (mongodb-keyset-pagination).     *)
(*                                                                         *)
(* JavaScript objects are modelled as sequences of <<key, value>> entries  *)
(* in insertion order (the order Object.keys / Object.entries / spread     *)
(* observe).  An optional object (a parameter that may be undefined) is a  *)
(* sequence of length 0 or 1.  Scalar values are integers; UNDEF and NULL  *)
(* stand for the JavaScript values undefined and null.                     *)
(***************************************************************************)
EXTENDS Integers, Sequences, FiniteSets, TLC

VARIABLES instance, collection, filter, options, skipContent,
          paginated, documentList, pages, pc, skipToken, decoded

vars == <<instance, collection, filter, options, skipContent,
          paginated, documentList, pages, pc, skipToken, decoded>>

--------------------------------------------------------------------------
(* Bounds of the model *)

MaxDocs == 2
MaxVal == 2
MaxLimit == 2
MaxPages == MaxDocs + 2
MaxIv == 2

--------------------------------------------------------------------------
(* Values *)

UNDEF == -2
NULL == -1
DefaultLimit == 10

IsNullish(v) == v \in {UNDEF, NULL}

\* JavaScript  x ?? y
Coalesce(x, y) == IF IsNullish(x) THEN y ELSE x

None == <<>>
Some(x) == <<x>>

--------------------------------------------------------------------------
(* Objects as ordered entry lists *)

Keys(o) == [i \in 1..Len(o) |-> o[i][1]]

Has(o, k) == \E i \in 1..Len(o) : o[i][1] = k

Get(o, k) == o[CHOOSE i \in 1..Len(o) : o[i][1] = k][2]

\* o[k] for an object whose values are scalars: undefined when k is not a key
GetScalar(o, k) == IF Has(o, k) THEN Get(o, k) ELSE UNDEF

\* {...o, [k]: v}
Set(o, k, v) ==
    IF Has(o, k)
    THEN [i \in 1..Len(o) |-> IF o[i][1] = k THEN <<k, v>> ELSE o[i]]
    ELSE Append(o, <<k, v>>)

\* {...a, ...b}
RECURSIVE Spread(_, _)
Spread(a, b) ==
    IF b = <<>> THEN a
    ELSE Spread(Set(a, b[1][1], b[1][2]), Tail(b))

\* the lists of a list of lists, one after the other
RECURSIVE Flatten(_)
Flatten(lists) == IF lists = <<>> THEN <<>> ELSE lists[1] \o Flatten(Tail(lists))

--------------------------------------------------------------------------
(* Filter conditions on one field *)

Lit(v) == [lit |-> v]
IsLit(c) == "lit" \in DOMAIN c
Op1(op, v) == (op :> v)
ExistsNotNull == ("$exists" :> TRUE) @@ ("$ne" :> NULL)

\* JavaScript truthiness of filter[key]
TruthyField(f, k) ==
    /\ Has(f, k)
    /\ LET c == Get(f, k)
       IN  IsLit(c) => ~(IsNullish(c.lit) \/ c.lit = 0)

--------------------------------------------------------------------------
(* KeySetPagination: sort normalisation and resume values *)

\* new KeySetPagination(options): defaults, overridden by the given options
Constructor(instanceOptions) ==
    Spread(<< <<"defaultLimit", DefaultLimit>>,
              <<"encryptionAlgorithm", "aes-192-cbc">> >>, instanceOptions)

\* a normalisation that always sorts _id ascending
getSortQueryAlwaysAscending(sort) == Set(sort, "_id", 1)

\* getSortQuery(sort = {}): {...sort, _id: sort._id === -1 ? -1 : 1}
getSortQuery(sort) ==
    Set(sort, "_id", IF GetScalar(sort, "_id") = -1 THEN -1 ELSE 1)

\* key.split('.'): "n.r" is the one sort key of this model with a dot
Split(key) == IF key = "n.r" THEN <<"n", "r">> ELSE <<key>>

\* what a step of the path walk holds: an object with its members, null,
\* undefined, or a primitive value (which has no members)
ObjectHolder(entries) == [kind |-> "object", entries |-> entries]
NullHolder == [kind |-> "null", entries |-> <<>>]
UndefinedHolder == [kind |-> "undefined", entries |-> <<>>]
PrimitiveHolder == [kind |-> "primitive", entries |-> <<>>]

\* a date: an object without own members; its time is kept under "$date"
\* as in the extended JSON form, which is no property of the object
AtomicHolder(time) == [kind |-> "atomic", entries |-> << <<"$date", time>> >>]

\* the members of a document that hold an object or null
IsNestedKey(key) == key = "n"

\* document[part], for a part that is not the last of the path
Member(entries, part) ==
    IF ~Has(entries, part) THEN UndefinedHolder
    ELSE IF IsNestedKey(part) THEN Get(entries, part)
    ELSE PrimitiveHolder

\* the result of a walk that ended in a TypeError
TypeError == -3

\* document[keyPartList[0]] is a TypeError when document is undefined or null
RECURSIVE getDocumentSkipValue(_, _)
getDocumentSkipValue(keyPartList, document) ==
    IF document.kind \in {"undefined", "null"}
    THEN TypeError
    ELSE IF Len(keyPartList) <= 1
         THEN GetScalar(document.entries, keyPartList[1])
         ELSE getDocumentSkipValue(Tail(keyPartList),
                                   Member(document.entries, keyPartList[1]))

RECURSIVE getSkipValuesFrom(_, _, _)
getSkipValuesFrom(obj, sortKeys, document) ==
    IF sortKeys = <<>> THEN obj
    ELSE getSkipValuesFrom(
            Set(obj, sortKeys[1],
                Coalesce(getDocumentSkipValue(Split(sortKeys[1]),
                                              ObjectHolder(document)), NULL)),
            Tail(sortKeys), document)

\* a reduce that leaves _id out of the resume values
getSkipValuesWithoutId(sort, document) ==
    getSkipValuesFrom(<<>>, Keys(SelectSeq(sort, LAMBDA e : e[1] # "_id")), document)

\* Object.keys(sort).reduce(..., {})
getSkipValues(sort, document) == getSkipValuesFrom(<<>>, Keys(sort), document)

\* the getSkipContent closure ends in a TypeError: the walk of a sort key
\* on the last document does
getSkipContentThrows(docList, sortObj, limit) ==
    /\ ~(Len(docList) = 0 \/ Len(docList) < limit)
    /\ \E i \in 1..Len(sortObj) :
          getDocumentSkipValue(Split(sortObj[i][1]),
                               ObjectHolder(docList[Len(docList)])) = TypeError

\* a closure whose resume point leaves the tie-break key out of its sort
getSkipContentSortWithoutId(docList, paginatedSort, paginatedLimit) ==
    IF Len(docList) = 0 \/ Len(docList) < paginatedLimit
    THEN None
    ELSE Some(<< <<"skipValues", getSkipValues(paginatedSort, docList[Len(docList)])>>,
                 <<"limit", paginatedLimit>>,
                 <<"sort", SelectSeq(paginatedSort, LAMBDA e : e[1] # "_id")>> >>)

\* a closure that also takes a page of exactly the limit as the last one
getSkipContentOffByOne(docList, paginatedSort, paginatedLimit) ==
    IF Len(docList) = 0 \/ Len(docList) <= paginatedLimit
    THEN None
    ELSE Some(<< <<"skipValues", getSkipValues(paginatedSort, docList[Len(docList)])>>,
                 <<"limit", paginatedLimit>>,
                 <<"sort", paginatedSort>> >>)

\* the getSkipContent closure of getPaginatedQuery
getSkipContent(docList, paginatedSort, paginatedLimit) ==
    IF Len(docList) = 0 \/ Len(docList) < paginatedLimit
    THEN None
    ELSE Some(<< <<"skipValues", getSkipValues(paginatedSort, docList[Len(docList)])>>,
                 <<"limit", paginatedLimit>>,
                 <<"sort", paginatedSort>> >>)

--------------------------------------------------------------------------
(* KeySetPagination.getFilterQuery *)

UndefinedKey == ""

\* list[idx] with a 0-based index; undefined outside the list
At(list, idx) == IF idx \in 0..(Len(list) - 1) THEN list[idx + 1] ELSE UndefinedKey

\* list.findIndex(key => key === k)
FindIndex(list, k) ==
    IF \E i \in 1..Len(list) : list[i] = k
    THEN (CHOOSE i \in 1..Len(list) :
            list[i] = k /\ \A j \in 1..(i - 1) : list[j] # k) - 1
    ELSE -1

NotId(entry) == entry[1] # "_id"

\* a range operator that ignores the direction
RangeOpAlwaysGt(direction, value) == Op1("$gt", value)

\* {[direction === -1 ? '$lt' : '$gt']: value}
RangeOp(direction, value) == Op1(IF direction = -1 THEN "$lt" ELSE "$gt", value)

\* a range alternative without the null case
RangeAlternativesNoNullCase(sortObj, currentKey, currentKeyValue) ==
    << << <<currentKey,
            RangeOp(GetScalar(sortObj, currentKey),
                    Coalesce(currentKeyValue, NULL))>> >> >>

\* the range alternative of the current key (none for a descending key at null)
RangeAlternatives(sortObj, currentKey, currentKeyValue) ==
    IF IsNullish(currentKeyValue)
    THEN IF GetScalar(sortObj, currentKey) # -1
         THEN << << <<currentKey, ExistsNotNull>> >> >>
         ELSE <<>>
    ELSE << << <<currentKey,
                 RangeOp(GetScalar(sortObj, currentKey),
                         Coalesce(currentKeyValue, NULL))>> >> >>

\* a list builder that leaves the equality branch out when the resume value
\* of the current key is null or absent
RECURSIVE getQueryOrListNoEqualityAtNull(_, _, _, _)
getQueryOrListNoEqualityAtNull(sortObj, skipValues, sortObjKeyList, currentSortKeyList) ==
    LET currentKey == At(currentSortKeyList, 0)
        nextKey == At(currentSortKeyList, 1)
        lastKey == At(sortObjKeyList, Len(sortObjKeyList) - 1)
        currentKeyValue == GetScalar(skipValues, currentKey)
        nextKeyValue == GetScalar(skipValues, nextKey)
        orList == RangeAlternatives(sortObj, currentKey, currentKeyValue)
        recursiveObj == << <<currentKey, Lit(Coalesce(currentKeyValue, NULL))>> >>
    IN  IF nextKey # UndefinedKey /\ ~IsNullish(currentKeyValue)
        THEN IF nextKey # lastKey
             THEN Append(orList,
                    Spread(recursiveObj,
                      << <<"$or", getQueryOrListNoEqualityAtNull(sortObj, skipValues,
                                     sortObjKeyList, Tail(currentSortKeyList))>> >>))
             ELSE Append(orList,
                    Spread(recursiveObj,
                      << <<nextKey,
                           RangeOp(GetScalar(sortObj, nextKey),
                                   Coalesce(nextKeyValue, NULL))>> >>))
        ELSE orList

RECURSIVE getQueryOrList(_, _, _, _)
getQueryOrList(sortObj, skipValues, sortObjKeyList, currentSortKeyList) ==
    LET currentKeyIndex == FindIndex(sortObjKeyList, At(currentSortKeyList, 0))
        nextKeyIndex == FindIndex(sortObjKeyList, At(currentSortKeyList, 1))
        currentKey == At(sortObjKeyList, currentKeyIndex)
        nextKey == At(sortObjKeyList, nextKeyIndex)
        firstKey == At(currentSortKeyList, 0)
        lastKey == At(sortObjKeyList, Len(sortObjKeyList) - 1)
        currentKeyValue == GetScalar(skipValues, currentKey)
        nextKeyValue == GetScalar(skipValues, nextKey)
        orList ==
            IF currentKey = firstKey
            THEN RangeAlternatives(sortObj, currentKey, currentKeyValue)
            ELSE <<>>
        recursiveObj == << <<currentKey, Lit(Coalesce(currentKeyValue, NULL))>> >>
    IN  IF nextKey # UndefinedKey
        THEN IF nextKey # lastKey
             THEN Append(orList,
                    Spread(recursiveObj,
                      << <<"$or", getQueryOrList(sortObj, skipValues, sortObjKeyList,
                                                 Tail(currentSortKeyList))>> >>))
             ELSE Append(orList,
                    Spread(recursiveObj,
                      << <<nextKey,
                           RangeOp(GetScalar(sortObj, nextKey),
                                   Coalesce(nextKeyValue, NULL))>> >>))
        ELSE orList

\* the non-_id keys of the resume point's sort, then _id
SortObjKeyList(sortObj) == Append(Keys(SelectSeq(sortObj, NotId)), "_id")

\* a merge that spreads the disjunction over the caller's keys in every case
MergeFilterFlatten(paginatedFilter, paginationQuery) ==
    Spread(paginatedFilter, paginationQuery)

\* the merge of the caller's filter with the tie-break disjunction
MergeFilter(paginatedFilter, paginationQuery) ==
    IF Has(paginatedFilter, "$or")
    THEN << <<"$and", <<paginatedFilter, paginationQuery>> >> >>
    ELSE Spread(paginatedFilter, paginationQuery)

\* the single-field branch: the sort of the resume point has only _id
SingleFieldFilter(callerFilter, sortObj, skipValues) ==
    IF TruthyField(callerFilter, "_id")
    THEN callerFilter
    ELSE Spread(callerFilter,
           << <<"_id", RangeOp(GetScalar(sortObj, "_id"),
                               GetScalar(skipValues, "_id"))>> >>)

\* getFilterQuery ends in a TypeError on these resume points
FilterQueryThrows(callerFilter, skipContentOpt) ==
    /\ skipContentOpt # None
    /\ LET sc == skipContentOpt[1]
       IN  \/ ~Has(sc, "sort")
           \/ /\ ~Has(sc, "skipValues")
              /\ ~(/\ SelectSeq(Get(sc, "sort"), NotId) = <<>>
                   /\ TruthyField(callerFilter, "_id"))

\* getFilterQuery past its first-page return: the filter of a resume point
ResumeFilter(callerFilter, sc) ==
    LET sortObj == Get(sc, "sort")
        skipValues == IF Has(sc, "skipValues") THEN Get(sc, "skipValues") ELSE <<>>
        sortObjWithoutId == SelectSeq(sortObj, NotId)
        sortObjKeyList == SortObjKeyList(sortObj)
    IN  IF Len(sortObjWithoutId) = 0
        THEN SingleFieldFilter(callerFilter, sortObj, skipValues)
        ELSE MergeFilter(callerFilter,
               << <<"$or", getQueryOrList(sortObj, skipValues,
                                          sortObjKeyList, sortObjKeyList)>> >>)

\* a first-page return that drops the caller's filter
getFilterQueryEmptyFirstPage(callerFilter, skipContentOpt) ==
    IF skipContentOpt = None
    THEN <<>>
    ELSE ResumeFilter(callerFilter, skipContentOpt[1])

getFilterQuery(callerFilter, skipContentOpt) ==
    IF skipContentOpt = None
    THEN callerFilter
    ELSE ResumeFilter(callerFilter, skipContentOpt[1])

\* skipTokenContent?.limit
TokenLimit(skipContentOpt) ==
    IF skipContentOpt = None THEN UNDEF ELSE GetScalar(skipContentOpt[1], "limit")

\* a limit that never reads the options of the instance
paginatedLimitNoInstanceDefault(this, skipContentOpt, callOptions) ==
    Coalesce(GetScalar(callOptions, "limit"),
      Coalesce(TokenLimit(skipContentOpt), DefaultLimit))

\* a limit that prefers the limit of the resume point to the caller's
paginatedLimitTokenFirst(this, skipContentOpt, callOptions) ==
    Coalesce(TokenLimit(skipContentOpt),
      Coalesce(GetScalar(callOptions, "limit"),
        Coalesce(GetScalar(this, "defaultLimit"), DefaultLimit)))

\* options.limit ?? skipTokenContent?.limit ?? this.options.defaultLimit ?? 10
paginatedLimit(this, skipContentOpt, callOptions) ==
    Coalesce(GetScalar(callOptions, "limit"),
      Coalesce(TokenLimit(skipContentOpt),
        Coalesce(GetScalar(this, "defaultLimit"), DefaultLimit)))

\* a sort that prefers the sort of the options to the sort of the resume point
paginatedSortOptionsFirst(skipContentOpt, callOptions) ==
    IF Has(callOptions, "sort")
    THEN getSortQuery(Get(callOptions, "sort"))
    ELSE IF skipContentOpt # None /\ Has(skipContentOpt[1], "sort")
         THEN Get(skipContentOpt[1], "sort")
         ELSE getSortQuery(<<>>)

\* skipTokenContent?.sort ?? this.getSortQuery(options.sort)
paginatedSort(skipContentOpt, callOptions) ==
    IF skipContentOpt # None /\ Has(skipContentOpt[1], "sort")
    THEN Get(skipContentOpt[1], "sort")
    ELSE getSortQuery(IF Has(callOptions, "sort")
                      THEN Get(callOptions, "sort") ELSE <<>>)

\* the property writes a call makes on the object the caller passed as filter,
\* if the tie-break disjunction were merged into that object
FilterWritesMergeInPlace(callerFilter, skipContentOpt) ==
    IF /\ skipContentOpt # None
       /\ SelectSeq(Get(skipContentOpt[1], "sort"), NotId) # <<>>
       /\ ~Has(callerFilter, "$or")
    THEN << <<"$or", getQueryOrList(Get(skipContentOpt[1], "sort"),
                                    Get(skipContentOpt[1], "skipValues"),
                                    SortObjKeyList(Get(skipContentOpt[1], "sort")),
                                    SortObjKeyList(Get(skipContentOpt[1], "sort")))>> >>
    ELSE <<>>

\* the property writes a call makes on the object the caller passed as filter:
\* none, every object literal of getFilterQuery is a new object
FilterWrites(callerFilter, skipContentOpt) == <<>>

\* the caller's filter object after the call
CallerFilterAfter(callerFilter, skipContentOpt) ==
    Spread(callerFilter, FilterWrites(callerFilter, skipContentOpt))

\* getPaginatedQuery(filter, skipContent, options) of an instance
getPaginatedQuery(this, callerFilter, skipContentOpt, callOptions) ==
    IF FilterQueryThrows(callerFilter, skipContentOpt)
    THEN [threw |-> TRUE, paginatedFilter |-> <<>>,
          paginatedSort |-> <<>>, paginatedLimit |-> 0]
    ELSE [threw |-> FALSE,
          paginatedFilter |-> getFilterQuery(callerFilter, skipContentOpt),
          paginatedSort |-> paginatedSort(skipContentOpt, callOptions),
          paginatedLimit |-> paginatedLimit(this, skipContentOpt, callOptions)]

--------------------------------------------------------------------------
(* EJSON: the text of a resume point *)

\* the lexical items of a JSON text
OpenItem == [t |-> "{", k |-> "", n |-> 0]
CloseItem == [t |-> "}", k |-> "", n |-> 0]
NullItem == [t |-> "null", k |-> "", n |-> 0]
KeyItem(key) == [t |-> "key", k |-> key, n |-> 0]
NumItem(number) == [t |-> "num", k |-> "", n |-> number]

\* the members of a resume point that are objects themselves
IsDocumentKey(key) == key \in {"skipValues", "sort"}

\* serializeValue of a scalar: undefined and null both become null
SerializeValue(v) == IF IsNullish(v) THEN NullItem ELSE NumItem(v)

RECURSIVE SerializeDocument(_)
SerializeDocument(doc) ==
    LET SerializeEntry(entry) ==
            <<KeyItem(entry[1])>>
                \o (IF IsDocumentKey(entry[1])
                    THEN SerializeDocument(entry[2])
                    ELSE <<SerializeValue(entry[2])>>)
    IN  <<OpenItem>>
            \o Flatten([i \in 1..Len(doc) |-> SerializeEntry(doc[i])])
            \o <<CloseItem>>

\* EJSON.stringify(value): the text "null" for undefined
EJSONStringify(valueOpt) ==
    IF valueOpt = None THEN <<NullItem>> ELSE SerializeDocument(valueOpt[1])

ParseValue(item) == IF item.t = "null" THEN NULL ELSE item.n

\* the members of an object from position i up to its closing brace
RECURSIVE ParseEntries(_, _, _)
ParseEntries(text, i, acc) ==
    IF text[i].t = "}"
    THEN [obj |-> acc, next |-> i + 1]
    ELSE IF text[i + 1].t = "{"
         THEN LET inner == ParseEntries(text, i + 2, <<>>)
              IN  ParseEntries(text, inner.next, Set(acc, text[i].k, inner.obj))
         ELSE ParseEntries(text, i + 2, Set(acc, text[i].k, ParseValue(text[i + 1])))

\* EJSON.parse(text): null (no resume point) or an object
EJSONParse(text) ==
    IF text[1].t = "null" THEN None ELSE Some(ParseEntries(text, 2, <<>>).obj)

--------------------------------------------------------------------------
(* node:crypto, and the token of a resume point *)

\* crypto.randomBytes(16)
IvLength == 16

\* the encryption keys of the test instances and one more key of 24 bytes
Key192 == "3c3751a129e5c2c8b3a34705"
Key256 == "b000925c14b239a39922092d1a9b4c81"
OtherKey192 == "0f1e2d3c4b5a69788796a5b4"

KeyLength(key) == IF key = Key256 THEN 32 ELSE 24

\* the key length an algorithm requires
AlgorithmKeyLength(algorithm) == IF algorithm = "aes-192-cbc" THEN 24 ELSE 32

\* a mode that authenticates: final() of a decipher needs the auth tag
IsAuthenticated(algorithm) == algorithm = "aes-256-gcm"

\* the iv lengths an algorithm accepts: the block size in CBC mode
IvAccepted(algorithm, length) ==
    IF IsAuthenticated(algorithm) THEN length > 0 ELSE length = IvLength

\* createCipheriv / createDecipheriv end in an error: no key, a key of the
\* wrong length, or an iv of the wrong length
CipherivThrows(this, ivLen) ==
    \/ ~Has(this, "encryptionKey")
    \/ KeyLength(Get(this, "encryptionKey"))
            # AlgorithmKeyLength(Get(this, "encryptionAlgorithm"))
    \/ ~IvAccepted(Get(this, "encryptionAlgorithm"), ivLen)

\* one part of a token between the dots, as its base64url decoding: a number
\* of bytes that are an iv, or a cipher text (a box that holds a text sealed
\* under an algorithm, a key and an iv), intact or damaged
NoBox == <<>>
IvPart(iv) == [len |-> IvLength, iv |-> iv, box |-> NoBox, intact |-> TRUE]
BytesPart(length) == [len |-> length, iv |-> 0, box |-> NoBox, intact |-> FALSE]
CipherPart(algorithm, key, iv, text) ==
    [len |-> 2 * IvLength, iv |-> 0,
     box |-> <<[algorithm |-> algorithm, key |-> key, iv |-> iv, text |-> text]>>,
     intact |-> TRUE]

Thrown == [threw |-> TRUE, token |-> <<>>, value |-> None]
NoToken == [threw |-> FALSE, token |-> <<>>, value |-> None]
Returned(token, valueOpt) == [threw |-> FALSE, token |-> token, value |-> valueOpt]

\* encryptSkipContent(skipContent) with the iv that randomBytes drew
encryptSkipContent(this, valueOpt, iv) ==
    IF CipherivThrows(this, IvLength)
    THEN Thrown
    ELSE Returned(<<IvPart(iv),
                    CipherPart(Get(this, "encryptionAlgorithm"),
                               Get(this, "encryptionKey"), iv,
                               EJSONStringify(valueOpt))>>,
                  None)

\* decipher.update + decipher.final end in an error: no second part, a part
\* that is no cipher text of this key, algorithm and iv, or no auth tag
DecipherThrows(this, encryptedParts) ==
    \/ Len(encryptedParts) < 2
    \/ LET part == encryptedParts[2]
       IN  \/ part.box = NoBox
           \/ ~part.intact
           \/ part.box[1].algorithm # Get(this, "encryptionAlgorithm")
           \/ part.box[1].key # Get(this, "encryptionKey")
           \/ part.box[1].iv # encryptedParts[1].iv
           \/ IsAuthenticated(Get(this, "encryptionAlgorithm"))

\* decryptSkipContent(skipContentEncrypted); the token is given as its parts,
\* skipContentEncrypted.split('.')
decryptSkipContent(this, encryptedParts) ==
    IF CipherivThrows(this, encryptedParts[1].len)
    THEN Thrown
    ELSE IF DecipherThrows(this, encryptedParts)
         THEN Thrown
         ELSE Returned(encryptedParts, EJSONParse(encryptedParts[2].box[1].text))

ThrownQuery == [threw |-> TRUE, paginatedFilter |-> <<>>,
                paginatedSort |-> <<>>, paginatedLimit |-> 0]

\* a call that falls back to the first page when the token does not decrypt
getPaginatedQueryOfTokenSilentRecovery(this, callerFilter, encryptedParts, callOptions) ==
    LET skipTokenContent == decryptSkipContent(this, encryptedParts)
    IN  IF skipTokenContent.threw
        THEN getPaginatedQuery(this, callerFilter, None, callOptions)
        ELSE getPaginatedQuery(this, callerFilter, skipTokenContent.value, callOptions)

\* getPaginatedQuery(filter, skipContent, options) with a string as skipContent
getPaginatedQueryOfToken(this, callerFilter, encryptedParts, callOptions) ==
    LET skipTokenContent == decryptSkipContent(this, encryptedParts)
    IN  IF skipTokenContent.threw
        THEN ThrownQuery
        ELSE getPaginatedQuery(this, callerFilter, skipTokenContent.value, callOptions)

--------------------------------------------------------------------------
(* The document store: find(filter).sort(sort).limit(limit) *)

IsNumber(v) == ~IsNullish(v)

\* the value of a field of a document; undefined when the field is absent
FieldValue(document, key) == GetScalar(document, key)

\* one operator of an operator object against a field value
OperatorMatches(v, op, operand) ==
    CASE op = "$gt" -> IsNumber(v) /\ IsNumber(operand) /\ v > operand
      [] op = "$lt" -> IsNumber(v) /\ IsNumber(operand) /\ v < operand
      [] op = "$in" -> v \in operand
      [] op = "$exists" -> (v # UNDEF) = operand
      [] op = "$ne" -> IF IsNullish(operand) THEN ~IsNullish(v) ELSE v # operand
      [] OTHER -> FALSE

\* {field: condition}: a literal matches by equality, null matches null and absent
ConditionMatches(v, c) ==
    IF IsLit(c)
    THEN IF IsNullish(c.lit) THEN IsNullish(v) ELSE v = c.lit
    ELSE \A op \in DOMAIN c : OperatorMatches(v, op, c[op])

RECURSIVE Matches(_, _)
Matches(document, f) ==
    \A i \in 1..Len(f) :
        LET k == f[i][1]
            val == f[i][2]
        IN  CASE k = "$or" -> \E j \in 1..Len(val) : Matches(document, val[j])
              [] k = "$and" -> \A j \in 1..Len(val) : Matches(document, val[j])
              [] OTHER -> ConditionMatches(FieldValue(document, k), val)


\* the rank of a value in the store's sort order: null and absent come first
SortRank(v) == IF IsNullish(v) THEN NULL ELSE v

\* d1 comes strictly before d2 under the ordered sort specification
RECURSIVE ComesBefore(_, _, _)
ComesBefore(d1, d2, sort) ==
    IF sort = <<>> THEN FALSE
    ELSE LET k == sort[1][1]
             r1 == SortRank(FieldValue(d1, k))
             r2 == SortRank(FieldValue(d2, k))
         IN  IF r1 = r2 THEN ComesBefore(d1, d2, Tail(sort))
             ELSE IF sort[1][2] = -1 THEN r1 > r2 ELSE r1 < r2

\* the documents of docs in sort order (the sort ends in the unique _id)
Sorted(docs, sort) ==
    [i \in 1..Cardinality(docs) |->
        CHOOSE d \in docs :
            Cardinality({e \in docs : ComesBefore(e, d, sort)}) = i - 1]

Min(x, y) == IF x < y THEN x ELSE y

Find(docs, f, sort, limit) ==
    LET all == Sorted({d \in docs : Matches(d, f)}, sort)
    IN  SubSeq(all, 1, Min(limit, Len(all)))

--------------------------------------------------------------------------
(* Inputs *)

Ids == 0..(MaxDocs - 1)
FieldValues == {UNDEF} \cup 1..MaxVal
ResumeValues == {UNDEF, NULL} \cup 1..MaxVal
Directions == {1, -1}
SortKeys == {"a", "b", "_id"}

\* the SortDirection 'desc', a direction that is not one of the numbers 1 and -1
DescWord == -4

IsDefinedEntry(entry) == entry[2] # UNDEF

\* the document {_id: id, a: a, b: b}; an undefined field is absent
Doc(id, a, b) == SelectSeq(<< <<"_id", id>>, <<"a", a>>, <<"b", b>> >>, IsDefinedEntry)

DocUniverse == {Doc(id, a, b) : id \in Ids, a \in FieldValues, b \in FieldValues}

\* collections hold one document per id; no document has the field b
Collections == {{Doc(id, fa[id], UNDEF) : id \in Ids} : fa \in [Ids -> FieldValues]}

\* ordered field-to-direction mappings with distinct keys
SortsOfLen(n) ==
    {s \in [1..n -> SortKeys \X Directions] :
        \A i, j \in 1..n : i # j => s[i][1] # s[j][1]}

Sorts == SortsOfLen(0) \cup SortsOfLen(1) \cup SortsOfLen(2)

OrOfTwo == << <<"$or", << << <<"a", Lit(1)>> >>, << <<"_id", Lit(0)>> >> >> >> >>

SessionFilters ==
    { <<>>,
      << <<"_id", Lit(0)>> >>,
      << <<"_id", Op1("$in", {0, 1})>> >>,
      << <<"a", Lit(1)>> >>,
      OrOfTwo }

CompileFilters ==
    SessionFilters \cup
    { << <<"_id", Lit(1)>> >>,
      << <<"a", Lit(1)>> >> \o OrOfTwo }

LimitOptions == {UNDEF} \cup 1..MaxLimit

\* the options of a call: {sort?, limit?}
MakeOptions(hasSort, sort, limit) ==
    (IF hasSort THEN << <<"sort", sort>> >> ELSE <<>>)
        \o (IF limit = UNDEF THEN <<>> ELSE << <<"limit", limit>> >>)

SessionOptions ==
    {MakeOptions(TRUE, s, l) : s \in Sorts, l \in LimitOptions}
        \cup {MakeOptions(FALSE, <<>>, l) : l \in LimitOptions}

\* sorts that give a direction by the word 'desc'
WordSorts ==
    { << <<"_id", DescWord>> >>,
      << <<"a", DescWord>>, <<"_id", DescWord>> >>,
      << <<"_id", DescWord>>, <<"a", -1>> >> }

\* the property name of the array index i
IndexKey(i) == IF i = 0 THEN "0" ELSE "1"

\* an array of [field, direction] pairs, as the object of its own properties
\* {0: pair, 1: pair}
ArrayObject(pairs) == [i \in 1..Len(pairs) |-> <<IndexKey(i - 1), pairs[i]>>]

\* sorts given as an array of [field, direction] pairs
ArraySorts ==
    { ArrayObject(<< <<"a", 1>> >>),
      ArrayObject(<< <<"a", -1>>, <<"_id", -1>> >>) }

\* the options of a first-page call whose resume point is extracted
ExtractOptions ==
    SessionOptions \cup {MakeOptions(TRUE, s, UNDEF) : s \in WordSorts \cup ArraySorts}

CompileOptions ==
    {MakeOptions(h, << <<"a", -1>> >>, l) : h \in BOOLEAN, l \in {UNDEF, MaxLimit}}

\* the options passed along with a resume point: none, or a sort and a limit
ResumeOptions == {<<>>, MakeOptions(TRUE, << <<"a", -1>> >>, MaxLimit)}

ResumeValue(k, va, vb, vid) ==
    CASE k = "a" -> va [] k = "b" -> vb [] OTHER -> vid

\* a resume point for the sort, {skipValues, limit, sort}; an undefined value is absent
MakeSkipContent(sort, va, vb, vid, limit) ==
    << <<"skipValues",
         SelectSeq([i \in 1..Len(sort) |->
                       <<sort[i][1], ResumeValue(sort[i][1], va, vb, vid)>>],
                   IsDefinedEntry)>>,
       <<"limit", limit>>,
       <<"sort", sort>> >>

NoQuery == [threw |-> FALSE, paginatedFilter |-> <<>>,
            paginatedSort |-> <<>>, paginatedLimit |-> 0]

--------------------------------------------------------------------------
(* A pagination sequence over an unchanging collection *)

Init ==
    /\ instance = Constructor(<<>>)
    /\ collection \in Collections
    /\ filter \in SessionFilters
    /\ options \in SessionOptions
    /\ skipContent = None
    /\ paginated = NoQuery
    /\ documentList = <<>>
    /\ pages = <<>>
    /\ skipToken = NoToken
    /\ decoded = NoToken
    /\ pc = "call"

\* the caller asks for the query of the next page
GetPaginatedQuery ==
    /\ pc = "call"
    /\ Len(pages) < MaxPages
    /\ paginated' = getPaginatedQuery(instance, filter, skipContent, options)
    /\ pc' = "find"
    /\ UNCHANGED <<instance, collection, filter, options, skipContent,
                   documentList, pages>>
    /\ UNCHANGED <<skipToken, decoded>>

\* the caller runs find(paginatedFilter).sort(paginatedSort).limit(paginatedLimit)
FindPage ==
    /\ pc = "find"
    /\ ~paginated.threw
    /\ documentList' = Find(collection, paginated.paginatedFilter,
                            paginated.paginatedSort, paginated.paginatedLimit)
    /\ pages' = Append(pages, documentList')
    /\ pc' = "skip"
    /\ UNCHANGED <<instance, collection, filter, options, skipContent, paginated>>
    /\ UNCHANGED <<skipToken, decoded>>

\* the caller feeds the page to getSkipContent and keeps the resume point
GetSkipContent ==
    /\ pc = "skip"
    /\ skipContent' = IF getSkipContentThrows(documentList, paginated.paginatedSort,
                                              paginated.paginatedLimit)
                       THEN None
                       ELSE getSkipContent(documentList, paginated.paginatedSort,
                                           paginated.paginatedLimit)
    /\ pc' = IF getSkipContentThrows(documentList, paginated.paginatedSort,
                                     paginated.paginatedLimit)
             THEN "threw"
             ELSE IF skipContent' = None THEN "done" ELSE "call"
    /\ UNCHANGED <<instance, collection, filter, options, paginated,
                   documentList, pages>>
    /\ UNCHANGED <<skipToken, decoded>>

Next == GetPaginatedQuery \/ FindPage \/ GetSkipContent

Spec == Init /\ [][Next]_vars

--------------------------------------------------------------------------
(* One call of getPaginatedQuery on any filter, resume point and options *)

InitCompile ==
    /\ instance = Constructor(<<>>)
    /\ collection = {}
    /\ filter = <<>>
    /\ options = <<>>
    /\ skipContent = None
    /\ paginated = NoQuery
    /\ documentList = <<>>
    /\ pages = <<>>
    /\ skipToken = NoToken
    /\ decoded = NoToken
    /\ pc = "compile"

CompileFirstPage ==
    /\ pc = "compile"
    /\ \E f \in CompileFilters, o \in CompileOptions :
          /\ filter' = f
          /\ options' = o
          /\ skipContent' = None
          /\ paginated' = getPaginatedQuery(instance, f, None, o)
    /\ pc' = "compiled"
    /\ UNCHANGED <<instance, collection, documentList, pages>>
    /\ UNCHANGED <<skipToken, decoded>>

CompileResume ==
    /\ pc = "compile"
    /\ \E f \in CompileFilters, o \in ResumeOptions, s \in Sorts,
          va \in ResumeValues, vb \in ResumeValues, vid \in Ids, l \in {1, MaxLimit} :
          LET sc == Some(MakeSkipContent(getSortQuery(s), va, vb, vid, l))
          IN  /\ filter' = f
              /\ options' = o
              /\ skipContent' = sc
              /\ paginated' = getPaginatedQuery(instance, f, sc, o)
    /\ pc' = "compiled"
    /\ UNCHANGED <<instance, collection, documentList, pages>>
    /\ UNCHANGED <<skipToken, decoded>>

\* the object without its property k
Without(o, k) == SelectSeq(o, LAMBDA e : e[1] # k)

\* resume point objects that lack their sort, their skipValues, or both
InvalidResumePoints ==
    {Without(MakeSkipContent(getSortQuery(s), UNDEF, UNDEF, vid, 1), k) :
        s \in Sorts, vid \in Ids, k \in {"sort", "skipValues"}}
      \cup { << <<"limit", 1>> >> }

\* a call with a resume point object that is not well formed
CompileInvalidResume ==
    /\ pc = "compile"
    /\ \E f \in CompileFilters, sc \in InvalidResumePoints :
          /\ filter' = f
          /\ skipContent' = Some(sc)
          /\ paginated' = getPaginatedQuery(instance, f, Some(sc), options)
    /\ pc' = "compiledInvalid"
    /\ UNCHANGED <<instance, collection, options, documentList, pages>>
    /\ UNCHANGED <<skipToken, decoded>>

NextCompile == CompileFirstPage \/ CompileResume \/ CompileInvalidResume

SpecCompile == InitCompile /\ [][NextCompile]_vars

--------------------------------------------------------------------------
(* The getSkipContent closure of a first-page query on any document list *)

InitExtract ==
    /\ instance = Constructor(<<>>)
    /\ collection = {}
    /\ filter = <<>>
    /\ options = <<>>
    /\ skipContent = None
    /\ paginated = NoQuery
    /\ documentList = <<>>
    /\ pages = <<>>
    /\ skipToken = NoToken
    /\ decoded = NoToken
    /\ pc = "query"

QueryFirstPage ==
    /\ pc = "query"
    /\ \E o \in ExtractOptions :
          /\ options' = o
          /\ paginated' = getPaginatedQuery(instance, filter, None, o)
    /\ pc' = "extract"
    /\ UNCHANGED <<instance, collection, filter, skipContent, documentList, pages>>
    /\ UNCHANGED <<skipToken, decoded>>

\* a list of n documents with distinct ids that ends in the document last
ListEndingIn(n, last) ==
    [i \in 1..n |-> IF i = n THEN last
                    ELSE Doc((FieldValue(last, "_id") + i) % (MaxLimit + 2), UNDEF, UNDEF)]

ExtractSkipContent ==
    /\ pc = "extract"
    /\ \E n \in 0..(MaxLimit + 1), last \in DocUniverse :
          /\ documentList' = ListEndingIn(n, last)
          /\ skipContent' = IF getSkipContentThrows(documentList',
                                                    paginated.paginatedSort,
                                                    paginated.paginatedLimit)
                             THEN None
                             ELSE getSkipContent(documentList',
                                                 paginated.paginatedSort,
                                                 paginated.paginatedLimit)
          /\ pc' = IF getSkipContentThrows(documentList', paginated.paginatedSort,
                                           paginated.paginatedLimit)
                   THEN "threw" ELSE "extracted"
    /\ UNCHANGED <<instance, collection, filter, options, paginated, pages>>
    /\ UNCHANGED <<skipToken, decoded>>

NextExtract == QueryFirstPage \/ ExtractSkipContent

SpecExtract == InitExtract /\ [][NextExtract]_vars

--------------------------------------------------------------------------
(* The getSkipContent closure on documents with a nested object, for sorts
   with a dotted path *)

WalkSorts ==
    { <<>>,
      << <<"a", -1>> >>,
      << <<"n.r", 1>> >>,
      << <<"n.r", -1>> >>,
      << <<"a", 1>>, <<"n.r", -1>> >>,
      << <<"n.r", 1>>, <<"_id", -1>> >> }

WalkOptions == {MakeOptions(TRUE, s, l) : s \in WalkSorts, l \in 1..MaxLimit}

\* the member n of a document: absent, null, an object {r?: value}, or a date
NestedValues ==
    {UndefinedHolder, NullHolder, ObjectHolder(<<>>)}
        \cup {ObjectHolder(<< <<"r", v>> >>) : v \in {NULL} \cup 1..MaxVal}
        \cup {AtomicHolder(v) : v \in 1..MaxVal}

\* the document {_id: id, a: a, n: n}; an undefined member is absent
WalkDoc(id, a, n) ==
    Doc(id, a, UNDEF) \o (IF n.kind = "undefined" THEN <<>> ELSE << <<"n", n>> >>)

WalkDocuments ==
    {WalkDoc(id, a, n) : id \in Ids, a \in FieldValues, n \in NestedValues}

InitWalk ==
    /\ instance = Constructor(<<>>)
    /\ collection = {}
    /\ filter = <<>>
    /\ options = <<>>
    /\ skipContent = None
    /\ paginated = NoQuery
    /\ documentList = <<>>
    /\ pages = <<>>
    /\ skipToken = NoToken
    /\ decoded = NoToken
    /\ pc = "walkQuery"

QueryWalkPage ==
    /\ pc = "walkQuery"
    /\ \E o \in WalkOptions :
          /\ options' = o
          /\ paginated' = getPaginatedQuery(instance, filter, None, o)
    /\ pc' = "walk"
    /\ UNCHANGED <<instance, collection, filter, skipContent, documentList, pages,
                   skipToken, decoded>>

ExtractWalk ==
    /\ pc = "walk"
    /\ \E n \in 0..(MaxLimit + 1), last \in WalkDocuments :
          /\ documentList' = ListEndingIn(n, last)
          /\ skipContent' = IF getSkipContentThrows(documentList',
                                                    paginated.paginatedSort,
                                                    paginated.paginatedLimit)
                             THEN None
                             ELSE getSkipContent(documentList',
                                                 paginated.paginatedSort,
                                                 paginated.paginatedLimit)
          /\ pc' = IF getSkipContentThrows(documentList', paginated.paginatedSort,
                                           paginated.paginatedLimit)
                   THEN "threw" ELSE "extracted"
    /\ UNCHANGED <<instance, collection, filter, options, paginated, pages,
                   skipToken, decoded>>

NextWalk == QueryWalkPage \/ ExtractWalk

SpecWalk == InitWalk /\ [][NextWalk]_vars

--------------------------------------------------------------------------
(* A caller that pages with the resume point or with the built-in token *)

\* the options given to the constructor
InstanceOptions ==
    { <<>>,
      << <<"defaultLimit", 1>>, <<"encryptionKey", Key192>> >>,
      << <<"encryptionKey", OtherKey192>> >>,
      << <<"defaultLimit", UNDEF>>, <<"encryptionAlgorithm", "aes-256-cbc">>,
         <<"encryptionKey", Key256>> >>,
      << <<"defaultLimit", MaxLimit>>, <<"encryptionAlgorithm", "aes-256-gcm">>,
         <<"encryptionKey", Key256>> >>,
      << <<"encryptionKey", Key256>> >> }

Instances == {Constructor(o) : o \in InstanceOptions}

TokenFilters == { <<>>, << <<"a", Lit(1)>> >>, OrOfTwo }

TokenOptions ==
    {MakeOptions(h, << <<"a", -1>> >>, l) : h \in BOOLEAN, l \in {UNDEF, 1, MaxLimit}}

\* the options of the call that resumes: none, another sort with a limit, a limit
TokenResumeOptions ==
    { <<>>,
      MakeOptions(TRUE, << <<"b", 1>> >>, MaxLimit),
      MakeOptions(FALSE, <<>>, 1) }

TokenLastDocuments == {Doc(0, UNDEF, UNDEF), Doc(1, 1, UNDEF)}

IVs == 1..MaxIv

\* the key is there and has the length the algorithm requires
ValidConfiguration(this) ==
    /\ Has(this, "encryptionKey")
    /\ KeyLength(Get(this, "encryptionKey"))
           = AlgorithmKeyLength(Get(this, "encryptionAlgorithm"))

\* the empty string: one part of no bytes
EmptyToken == <<BytesPart(0)>>

\* a token after damage in transport: the cipher text corrupted or cut, the
\* token cut at the dot, the dot lost, the iv corrupted
Damaged(token) ==
    { <<token[1], [token[2] EXCEPT !.intact = FALSE]>>,
      <<token[1]>>,
      <<BytesPart(3 * IvLength)>>,
      <<IvPart((token[1].iv % MaxIv) + 1), token[2]>> }

\* tokens of the same resume point made by the other instances
ForeignTokens(this, valueOpt) ==
    {encryptSkipContent(other, valueOpt, 1).token :
        other \in {i \in Instances : ValidConfiguration(i) /\ i # this}}

\* the strings a caller may pass as the resume token
TokensToPass ==
    (IF skipToken.threw THEN {} ELSE {skipToken.token} \cup Damaged(skipToken.token))
        \cup {EmptyToken}
        \cup ForeignTokens(instance, skipContent)

InitToken ==
    /\ instance \in Instances
    /\ collection = {}
    /\ filter \in TokenFilters
    /\ options = <<>>
    /\ skipContent = None
    /\ paginated = NoQuery
    /\ documentList = <<>>
    /\ pages = <<>>
    /\ skipToken = NoToken
    /\ decoded = NoToken
    /\ pc = "first"

\* getPaginatedQuery(filter, undefined, options)
TokenFirstPage ==
    /\ pc = "first"
    /\ \E o \in TokenOptions :
          /\ options' = o
          /\ paginated' = getPaginatedQuery(instance, filter, None, o)
    /\ filter' = CallerFilterAfter(filter, None)
    /\ pc' = "page"
    /\ UNCHANGED <<instance, collection, skipContent, documentList, pages,
                   skipToken, decoded>>

\* getSkipToken(documentList) of the first page's query; getSkipContent
\* (documentList) is what it encrypts
GetSkipToken ==
    /\ pc = "page"
    /\ \E n \in 0..MaxLimit, last \in TokenLastDocuments, iv \in IVs :
          /\ documentList' = ListEndingIn(n, last)
          /\ skipContent' = IF getSkipContentThrows(documentList',
                                                    paginated.paginatedSort,
                                                    paginated.paginatedLimit)
                             THEN None
                             ELSE getSkipContent(documentList',
                                                 paginated.paginatedSort,
                                                 paginated.paginatedLimit)
          /\ skipToken' = IF getSkipContentThrows(documentList',
                                                  paginated.paginatedSort,
                                                  paginated.paginatedLimit)
                           THEN Thrown
                           ELSE encryptSkipContent(instance, skipContent', iv)
    /\ pc' = "token"
    /\ UNCHANGED <<instance, collection, filter, options, paginated, pages, decoded>>

\* decryptSkipContent(token) of the token that getSkipToken returned
DecryptSkipContent ==
    /\ pc = "token"
    /\ ~skipToken.threw
    /\ decoded' = decryptSkipContent(instance, skipToken.token)
    /\ pc' = "decoded"
    /\ UNCHANGED <<instance, collection, filter, options, skipContent, paginated,
                   documentList, pages, skipToken>>

\* getPaginatedQuery(filter, skipContent, options) with the resume point
ResumeWithContent ==
    /\ pc = "token"
    /\ \E o \in TokenResumeOptions :
          /\ options' = o
          /\ paginated' = getPaginatedQuery(instance, filter, skipContent, o)
    /\ filter' = CallerFilterAfter(filter, skipContent)
    /\ pc' = "resumedContent"
    /\ UNCHANGED <<instance, collection, skipContent, documentList, pages,
                   skipToken, decoded>>

\* getPaginatedQuery(filter, token, options) with a string
ResumeWithToken ==
    /\ pc = "token"
    /\ \E t \in TokensToPass, o \in TokenResumeOptions :
          /\ options' = o
          /\ skipToken' = Returned(t, None)
          /\ decoded' = decryptSkipContent(instance, t)
          /\ paginated' = getPaginatedQueryOfToken(instance, filter, t, o)
          /\ filter' = CallerFilterAfter(filter, decoded'.value)
    /\ pc' = "resumedToken"
    /\ UNCHANGED <<instance, collection, skipContent, documentList, pages>>

NextToken ==
    \/ TokenFirstPage
    \/ GetSkipToken
    \/ DecryptSkipContent
    \/ ResumeWithContent
    \/ ResumeWithToken

SpecToken == InitToken /\ [][NextToken]_vars

--------------------------------------------------------------------------
(* Two pagination sequences that share one instance and interleave their
   calls; here the variables of a sequence hold one value per caller *)

Callers == {1, 2}

\* the instance both callers use
SharedInstance ==
    Constructor(<< <<"defaultLimit", 1>>, <<"encryptionKey", Key192>> >>)

\* the filter of each caller's sequence
SharedFilters == <<OrOfTwo, << <<"a", Lit(1)>> >> >>

\* the options of a sequence: none, or a sort and a limit
SharedOptions == { <<>>, MakeOptions(TRUE, << <<"a", -1>> >>, MaxLimit) }

\* a call that keeps its effective limit on the instance as the new default
InstanceWritesRemembersLimit(this, callerFilter, skipContentOpt, callOptions) ==
    << <<"defaultLimit", paginatedLimit(this, skipContentOpt, callOptions)>> >>

\* the assignments a call of getPaginatedQuery makes to this.options: none,
\* the constructor is the only place that assigns it
InstanceWrites(this, callerFilter, skipContentOpt, callOptions) == <<>>

\* this.options after the call
InstanceAfterCall(this, callerFilter, skipContentOpt, callOptions) ==
    Spread(this, InstanceWrites(this, callerFilter, skipContentOpt, callOptions))

InitShared ==
    /\ instance = SharedInstance
    /\ collection = {}
    /\ filter = [c \in Callers |-> SharedFilters[c]]
    /\ options \in [Callers -> SharedOptions]
    /\ skipContent = [c \in Callers |-> None]
    /\ paginated = [c \in Callers |-> NoQuery]
    /\ documentList = [c \in Callers |-> <<>>]
    /\ pages = [c \in Callers |-> <<>>]
    /\ skipToken = [c \in Callers |-> NoToken]
    /\ decoded = NoToken
    /\ pc = [c \in Callers |-> "first"]

\* caller c calls getPaginatedQuery: for its first page, or with its resume point
SharedQuery(c) ==
    /\ pc[c] \in {"first", "resume"}
    /\ paginated' = [paginated EXCEPT ![c] =
            getPaginatedQuery(instance, filter[c], skipContent[c], options[c])]
    /\ instance' = InstanceAfterCall(instance, filter[c], skipContent[c], options[c])
    /\ pc' = [pc EXCEPT ![c] = IF pc[c] = "first" THEN "page" ELSE "last"]
    /\ UNCHANGED <<collection, filter, options, skipContent, documentList, pages,
                   skipToken, decoded>>

\* caller c calls getSkipToken of its first query on the page it fetched
SharedSkipToken(c) ==
    /\ pc[c] = "page"
    /\ \E n \in 0..MaxLimit, last \in TokenLastDocuments, iv \in IVs :
          /\ documentList' = [documentList EXCEPT ![c] = ListEndingIn(n, last)]
          /\ pages' = [pages EXCEPT ![c] = Append(pages[c], ListEndingIn(n, last))]
          /\ skipToken' = [skipToken EXCEPT ![c] =
                encryptSkipContent(instance,
                    getSkipContent(ListEndingIn(n, last),
                                   paginated[c].paginatedSort,
                                   paginated[c].paginatedLimit), iv)]
    /\ pc' = [pc EXCEPT ![c] = "token"]
    /\ UNCHANGED <<instance, collection, filter, options, skipContent, paginated,
                   decoded>>

\* caller c calls getSkipContent of its latest query: on the page it fetched,
\* or on the page it has already passed to getSkipToken
SharedSkipContent(c) ==
    /\ pc[c] \in {"page", "token", "last"}
    /\ \E n \in 0..MaxLimit, last \in TokenLastDocuments :
          LET docList == IF pc[c] = "token" THEN documentList[c]
                         ELSE ListEndingIn(n, last)
          IN  /\ documentList' = [documentList EXCEPT ![c] = docList]
              /\ pages' = [pages EXCEPT ![c] =
                    IF pc[c] = "token" THEN pages[c] ELSE Append(pages[c], docList)]
              /\ skipContent' = [skipContent EXCEPT ![c] =
                    getSkipContent(docList, paginated[c].paginatedSort,
                                   paginated[c].paginatedLimit)]
              /\ pc' = [pc EXCEPT ![c] =
                    IF pc[c] = "last" \/ skipContent'[c] = None
                    THEN "done" ELSE "resume"]
    /\ UNCHANGED <<instance, collection, filter, options, paginated, skipToken,
                   decoded>>

NextShared ==
    \E c \in Callers : SharedQuery(c) \/ SharedSkipToken(c) \/ SharedSkipContent(c)

SpecShared == InitShared /\ [][NextShared]_vars

--------------------------------------------------------------------------
(* Properties of one compiled query *)

CompiledWithResume == pc = "compiled" /\ skipContent # None /\ ~paginated.threw

ResumeSort == Get(skipContent[1], "sort")
ResumeSkipValues == Get(skipContent[1], "skipValues")
OnlyIdSorted(sort) == SelectSeq(sort, NotId) = <<>>

\* C4: without a resume point the compiled filter is the caller's filter,
\* unchanged, for every filter.
C4FirstPageFilterUnchanged ==
    (pc = "compiled" /\ skipContent = None) => paginated.paginatedFilter = filter

C4Witness ==
    /\ pc = "compiled"
    /\ skipContent = None
    /\ Has(filter, "$or")
    /\ Has(filter, "a")
    /\ paginated.paginatedFilter = filter

\* C5: when the sort of the resume point has only _id, a caller filter that
\* constrains _id is returned as it is; any other filter gets one more key,
\* _id, with a strict range against the resume value: $gt when _id is
\* ascending and $lt when it is descending.
C5SingleFieldCase ==
    (CompiledWithResume /\ OnlyIdSorted(ResumeSort)) =>
        IF Has(filter, "_id")
        THEN paginated.paginatedFilter = filter
        ELSE paginated.paginatedFilter =
                Append(filter,
                       <<"_id", (IF GetScalar(ResumeSort, "_id") = -1
                                 THEN "$lt" ELSE "$gt")
                                    :> GetScalar(ResumeSkipValues, "_id")>>)

\* C7: with a sort that has a non-_id field, a caller filter with a top-level
\* $or is wrapped, untouched, as the first member of {$and: [filter, {$or:
\* alternatives}]}; a caller filter without $or keeps its keys and gets one
\* $or key that holds the alternatives.
C7MergeWithCallerFilter ==
    (CompiledWithResume /\ ~OnlyIdSorted(ResumeSort)) =>
        LET keyList == SortObjKeyList(ResumeSort)
            alternatives == getQueryOrList(ResumeSort, ResumeSkipValues, keyList, keyList)
        IN  IF Has(filter, "$or")
            THEN paginated.paginatedFilter =
                    << <<"$and", <<filter, << <<"$or", alternatives>> >> >> >> >>
            ELSE paginated.paginatedFilter = filter \o << <<"$or", alternatives>> >>

C7Witness ==
    /\ CompiledWithResume
    /\ ~OnlyIdSorted(ResumeSort)
    /\ Has(filter, "$or")
    /\ Has(filter, "a")
    /\ Has(paginated.paginatedFilter, "$and")
    /\ Get(paginated.paginatedFilter, "$and")[1] = filter

\* the tie-break disjunction inside the compiled filter
TieBreakQuery ==
    IF Has(filter, "$or")
    THEN Get(paginated.paginatedFilter, "$and")[2]
    ELSE << <<"$or", Get(paginated.paginatedFilter, "$or")>> >>

ResumeKeyList == SortObjKeyList(ResumeSort)

\* the document comes strictly after the resume values in the lexicographic
\* order of the keys, each in its direction
RECURSIVE SortsAfter(_, _, _, _)
SortsAfter(document, keyList, sortObj, skipValues) ==
    IF keyList = <<>> THEN FALSE
    ELSE LET dv == FieldValue(document, keyList[1])
             rv == GetScalar(skipValues, keyList[1])
         IN  IF dv = rv
             THEN SortsAfter(document, Tail(keyList), sortObj, skipValues)
             ELSE IF GetScalar(sortObj, keyList[1]) = -1 THEN dv < rv ELSE dv > rv

AllDefined(obj, keyList) ==
    \A i \in 1..Len(keyList) : IsNumber(GetScalar(obj, keyList[i]))

\* C3: with a non-_id sort field and no null resume value, a document whose
\* sort fields are all non-null satisfies the generated disjunction exactly
\* when it comes strictly after the resume point in the lexicographic order
\* of (k1, ..., _id), each key in its direction.
C3SeekPredicateExact ==
    (/\ CompiledWithResume
     /\ ~OnlyIdSorted(ResumeSort)
     /\ AllDefined(ResumeSkipValues, ResumeKeyList)) =>
        \A d \in DocUniverse :
            AllDefined(d, ResumeKeyList) =>
                (Matches(d, TieBreakQuery)
                    <=> SortsAfter(d, ResumeKeyList, ResumeSort, ResumeSkipValues))

C3Witness ==
    /\ CompiledWithResume
    /\ Len(ResumeKeyList) = 3
    /\ GetScalar(ResumeSort, ResumeKeyList[1]) = -1
    /\ GetScalar(ResumeSort, ResumeKeyList[2]) = 1
    /\ AllDefined(ResumeSkipValues, ResumeKeyList)
    /\ \E d \in DocUniverse :
          /\ AllDefined(d, ResumeKeyList)
          /\ FieldValue(d, ResumeKeyList[1]) = GetScalar(ResumeSkipValues, ResumeKeyList[1])
          /\ FieldValue(d, ResumeKeyList[2]) > GetScalar(ResumeSkipValues, ResumeKeyList[2])
          /\ Matches(d, TieBreakQuery)
    /\ \E d \in DocUniverse :
          /\ AllDefined(d, ResumeKeyList)
          /\ FieldValue(d, ResumeKeyList[1]) > GetScalar(ResumeSkipValues, ResumeKeyList[1])
          /\ ~Matches(d, TieBreakQuery)

\* the list of alternatives that decides the i-th key: the top-level list for
\* the first key, else the $or nested in the last alternative one level up
RECURSIVE OrListOfLevel(_, _)
OrListOfLevel(orList, i) ==
    IF i = 1 THEN orList
    ELSE OrListOfLevel(Get(orList[Len(orList)], "$or"), i - 1)

IsRangeCondition(c) == ~IsLit(c) /\ (DOMAIN c) \cap {"$gt", "$lt"} # {}

\* C8: for a sort key whose resume value is null or absent, the equality
\* clause on the key compares against null; an ascending key has the range
\* alternative {key: {$exists: true, $ne: null}} and no $gt; a descending key
\* has no range alternative, only the equality branch that goes on with the
\* next key.
C8NullResumeValues ==
    (CompiledWithResume /\ ~OnlyIdSorted(ResumeSort)) =>
        \A i \in 1..(Len(ResumeKeyList) - 1) :
            LET k == ResumeKeyList[i]
                orList == OrListOfLevel(Get(TieBreakQuery, "$or"), i)
                equalityBranch == orList[Len(orList)]
            IN  IsNullish(GetScalar(ResumeSkipValues, k)) =>
                    /\ Get(equalityBranch, k) = Lit(NULL)
                    /\ Has(equalityBranch, "$or") \/ Has(equalityBranch, ResumeKeyList[i + 1])
                    /\ \A j \in 1..Len(orList) :
                          Has(orList[j], k) => ~IsRangeCondition(Get(orList[j], k))
                    /\ IF GetScalar(ResumeSort, k) = -1
                       THEN Len(orList) = 1
                       ELSE Len(orList) = 2 /\ orList[1] = << <<k, ExistsNotNull>> >>

C8Witness ==
    /\ CompiledWithResume
    /\ Len(ResumeKeyList) = 3
    /\ GetScalar(ResumeSort, ResumeKeyList[1]) = -1
    /\ ~Has(ResumeSkipValues, ResumeKeyList[1])
    /\ GetScalar(ResumeSort, ResumeKeyList[2]) = 1
    /\ GetScalar(ResumeSkipValues, ResumeKeyList[2]) = NULL
    /\ Len(Get(TieBreakQuery, "$or")) = 1
    /\ Len(OrListOfLevel(Get(TieBreakQuery, "$or"), 2)) = 2

--------------------------------------------------------------------------
(* Properties of the getSkipContent closure *)

\* C9: getSkipContent returns none exactly when the list is empty or shorter
\* than the effective limit; otherwise it returns a resume point built from
\* the last document of the list.
C9ExhaustionSignal ==
    pc = "extracted" =>
        LET n == Len(documentList)
        IN  IF n = 0 \/ n < paginated.paginatedLimit
            THEN skipContent = None
            ELSE /\ skipContent # None
                 /\ \A i \in 1..Len(paginated.paginatedSort) :
                       LET k == paginated.paginatedSort[i][1]
                       IN  GetScalar(Get(skipContent[1], "skipValues"), k)
                              = Coalesce(FieldValue(documentList[n], k), NULL)

C9Witness ==
    /\ pc = "extracted"
    /\ Len(documentList) > paginated.paginatedLimit
    /\ skipContent # None
    /\ Has(paginated.paginatedSort, "a")
    /\ ~Has(documentList[Len(documentList)], "a")
    /\ GetScalar(Get(skipContent[1], "skipValues"), "a") = NULL

--------------------------------------------------------------------------
(* Properties of the effective sort of a first page *)

\* the sort the caller gave in the options; the empty mapping when it gave none
CallerSort == IF Has(options, "sort") THEN Get(options, "sort") ELSE <<>>

FirstPageQueried == pc \in {"extract", "extracted"}

\* C11: the effective sort of a first page has every caller field other than
\* _id at the caller's position with the caller's direction, and has _id: at
\* the caller's position when the caller listed it, else as one more key at
\* the end; the direction of _id is -1 exactly when the caller gave _id: -1
\* and 1 in every other case (no _id, _id: 1, or any other direction).
C11SortNormalization ==
    FirstPageQueried =>
        LET sort == CallerSort
            effective == paginated.paginatedSort
        IN  /\ \A i \in 1..Len(sort) :
                  /\ i <= Len(effective)
                  /\ effective[i][1] = sort[i][1]
                  /\ sort[i][1] # "_id" => effective[i][2] = sort[i][2]
            /\ IF Has(sort, "_id")
               THEN Len(effective) = Len(sort)
               ELSE /\ Len(effective) = Len(sort) + 1
                    /\ effective[Len(effective)][1] = "_id"
            /\ Get(effective, "_id") = -1 <=> GetScalar(sort, "_id") = -1
            /\ Get(effective, "_id") \in {1, -1}

C11Witness ==
    /\ FirstPageQueried
    /\ Len(CallerSort) = 2
    /\ CallerSort[1] = <<"_id", -1>>
    /\ paginated.paginatedSort = CallerSort

--------------------------------------------------------------------------
(* Properties of the resume point of a page *)

\* the value a document has at a sort path: through the nested object for
\* the dotted path, undefined when the path does not resolve
PathValue(document, key) ==
    IF key = "n.r"
    THEN IF Has(document, "n") /\ Get(document, "n").kind = "object"
         THEN GetScalar(Get(document, "n").entries, "r")
         ELSE UNDEF
    ELSE GetScalar(document, key)

LastDocument == documentList[Len(documentList)]

FullList ==
    Len(documentList) > 0 /\ Len(documentList) >= paginated.paginatedLimit

\* C15: a resume point that getSkipContent returns has skipValues for exactly
\* the keys of the effective sort, in its order, each the last document's
\* value at that path or null when the document has none, and carries the
\* effective sort and the effective limit of the query.
C15ResumePointContent ==
    (pc = "extracted" /\ skipContent # None) =>
        LET skipValues == Get(skipContent[1], "skipValues")
        IN  /\ Keys(skipValues) = Keys(paginated.paginatedSort)
            /\ \A i \in 1..Len(skipValues) :
                  skipValues[i][2] =
                      Coalesce(PathValue(LastDocument, skipValues[i][1]), NULL)
            /\ Get(skipContent[1], "sort") = paginated.paginatedSort
            /\ Get(skipContent[1], "limit") = paginated.paginatedLimit
            /\ Len(skipContent[1]) = 3

C15Witness ==
    /\ pc = "extracted"
    /\ skipContent # None
    /\ Keys(paginated.paginatedSort) = <<"a", "n.r", "_id">>
    /\ Has(LastDocument, "a")
    /\ Has(LastDocument, "n")
    /\ PathValue(LastDocument, "n.r") = UNDEF
    /\ Get(skipContent[1], "skipValues")
          = << <<"a", Get(LastDocument, "a")>>, <<"n.r", NULL>>,
               <<"_id", Get(LastDocument, "_id")>> >>

\* C16: for a full list, extraction returns a resume point whose value for
\* each sort path is the value found by the walk through the nested objects
\* of the last document, and null when the path does not resolve (the leaf or
\* a segment before it is absent); it does not end in an error.
C16UnresolvedPathIsNull ==
    (pc \in {"extracted", "threw"} /\ FullList) =>
        /\ pc = "extracted"
        /\ skipContent # None
        /\ \A i \in 1..Len(paginated.paginatedSort) :
              GetScalar(Get(skipContent[1], "skipValues"), paginated.paginatedSort[i][1])
                  = Coalesce(PathValue(LastDocument, paginated.paginatedSort[i][1]), NULL)

--------------------------------------------------------------------------
(* Properties of a call that resumes, with the resume point or with a token *)

Resumed == pc \in {"resumedContent", "resumedToken"} /\ ~paginated.threw

\* the resume point the resuming call worked with: the object passed, or
\* what the token passed decrypts to
SuppliedResumePoint == IF pc = "resumedToken" THEN decoded.value ELSE skipContent

QueryReturned == pc \in {"page", "token", "decoded"} \/ Resumed

\* C12: when a resume point is supplied, as an object or as a token, the
\* effective sort is the sort the resume point was made with; the sort in the
\* options of the resuming call is ignored.
C12ResumeSortWins ==
    (Resumed /\ skipContent # None) =>
        paginated.paginatedSort = Get(skipContent[1], "sort")

C12Witness ==
    /\ pc = "resumedToken"
    /\ ~paginated.threw
    /\ skipContent # None
    /\ Has(options, "sort")
    /\ Has(Get(skipContent[1], "sort"), "a")
    /\ ~Has(Get(options, "sort"), "a")
    /\ paginated.paginatedSort = Get(skipContent[1], "sort")

\* C13: the effective limit is options.limit when the caller gave one; else
\* the limit of the resume point when one was supplied; else the default
\* limit the instance was configured with, which is 10 when none was.
C13LimitPrecedence ==
    QueryReturned =>
        paginated.paginatedLimit =
            IF Has(options, "limit")
            THEN Get(options, "limit")
            ELSE IF Resumed /\ SuppliedResumePoint # None
                 THEN Get(SuppliedResumePoint[1], "limit")
                 ELSE IF GetScalar(instance, "defaultLimit") # UNDEF
                      THEN Get(instance, "defaultLimit")
                      ELSE 10

C13Witness ==
    /\ pc = "resumedToken"
    /\ ~paginated.threw
    /\ ~Has(options, "limit")
    /\ decoded.value # None
    /\ Get(decoded.value[1], "limit") = MaxLimit
    /\ Get(instance, "defaultLimit") # MaxLimit
    /\ paginated.paginatedLimit = MaxLimit

\* a resuming call whose options give a limit other than the resume point's
ResumedWithOtherLimit ==
    /\ Resumed
    /\ SuppliedResumePoint # None
    /\ Has(options, "limit")
    /\ Get(options, "limit") # Get(SuppliedResumePoint[1], "limit")

\* C14 (as stated): the limit of the resume point is preferred over a
\* differing limit the caller gives in the same call.
C14EmbeddedLimitPreferred ==
    ResumedWithOtherLimit =>
        paginated.paginatedLimit = Get(SuppliedResumePoint[1], "limit")

\* C14 (amended): the limit the caller gives in the resuming call is
\* preferred over a differing limit of the resume point; the limit of the
\* resume point is used when the caller gives none.
C14CallerLimitPreferred ==
    /\ ResumedWithOtherLimit => paginated.paginatedLimit = Get(options, "limit")
    /\ (Resumed /\ SuppliedResumePoint # None /\ ~Has(options, "limit")) =>
            paginated.paginatedLimit = Get(SuppliedResumePoint[1], "limit")

C14Witness ==
    /\ ResumedWithOtherLimit
    /\ pc = "resumedToken"
    /\ Get(options, "limit") = 1
    /\ Get(decoded.value[1], "limit") = MaxLimit
    /\ paginated.paginatedLimit = 1

--------------------------------------------------------------------------
(* Properties of the token *)

\* C18: for an instance whose key has the length its algorithm requires,
\* decrypting the token of a resume point gives a resume point equal to it
\* (same skip values, limit and sort), whatever iv was drawn.
C18TokenRoundTrip ==
    (pc = "decoded" /\ skipContent # None /\ ValidConfiguration(instance)) =>
        /\ ~decoded.threw
        /\ decoded.value = skipContent

\* the algorithm of the instance is one of the CBC algorithms
CbcConfiguration(this) ==
    ValidConfiguration(this) /\ ~IsAuthenticated(Get(this, "encryptionAlgorithm"))

\* C19: getSkipToken returns no token, and does not end in an error, when
\* the list is empty or shorter than the effective limit; otherwise it
\* returns a token that decrypts to the resume point getSkipContent returns
\* for the list.
C19SkipTokenOrNone ==
    (pc = "token" /\ CbcConfiguration(instance)) =>
        IF FullList
        THEN /\ ~skipToken.threw
             /\ skipContent # None
             /\ decryptSkipContent(instance, skipToken.token).value = skipContent
        ELSE skipToken = NoToken

\* a string that is not a token of this instance: empty, cut, without the
\* dot, with a damaged iv or cipher text, or sealed with another key or
\* algorithm
MalformedToken(token, this) ==
    \/ Len(token) < 2
    \/ token[1].len # IvLength
    \/ /\ Len(token) >= 2
       /\ \/ token[2].box = NoBox
          \/ ~token[2].intact
          \/ /\ token[2].box # NoBox
             /\ \/ token[2].box[1].iv # token[1].iv
                \/ /\ Has(this, "encryptionKey")
                   /\ \/ token[2].box[1].key # Get(this, "encryptionKey")
                      \/ token[2].box[1].algorithm
                            # Get(this, "encryptionAlgorithm")

--------------------------------------------------------------------------
(* Properties of a pagination sequence *)

Delivered == Flatten(pages)

\* the unpaginated query: the caller's filter under the effective sort
Unpaginated ==
    Sorted({d \in collection : Matches(d, filter)}, paginated.paginatedSort)

NoDocumentTwice(docList) ==
    \A i, j \in 1..Len(docList) :
        i # j => FieldValue(docList[i], "_id") # FieldValue(docList[j], "_id")

\* C1: when getSkipContent returns none, the pages fetched so far, put one
\* after the other, are the unpaginated result: same documents, same order.
C1Completeness ==
    pc = "done" => Delivered = Unpaginated

\* C2: no document _id appears twice in the pages of a pagination sequence.
C2NoDuplication == NoDocumentTwice(Delivered)

\* C6: with a caller filter on _id and a sort of only _id, each page starts
\* strictly after the last document of the page before it, no document is
\* repeated, and the page after the last matching document is empty.
C6IdFilterAdvances ==
    (Len(pages) > 0 /\ Has(filter, "_id") /\ OnlyIdSorted(paginated.paginatedSort)) =>
        /\ NoDocumentTwice(Delivered)
        /\ \A i \in 1..(Len(pages) - 1) :
              /\ (pages[i] # <<>> /\ pages[i + 1] # <<>>) =>
                    ComesBefore(pages[i][Len(pages[i])], pages[i + 1][1],
                                paginated.paginatedSort)
              /\ (/\ pages[i] # <<>>
                  /\ Unpaginated # <<>>
                  /\ pages[i][Len(pages[i])] = Unpaginated[Len(Unpaginated)]) =>
                    pages[i + 1] = <<>>

\* C10: when the documents still to deliver are exactly as many as the limit,
\* the page that delivers them is full and yields a resume point, the page
\* fetched with that resume point is empty, and the empty page yields no
\* resume point: the sequence ends there.
C10ExactLimitLastPage ==
    Len(pages) > 0 =>
        \A k \in 1..Len(pages) :
            LET limit == paginated.paginatedLimit
                before == (k - 1) * limit
            IN  (/\ Len(Unpaginated) = before + limit
                 /\ Flatten(SubSeq(pages, 1, k - 1)) = SubSeq(Unpaginated, 1, before)) =>
                    /\ Len(pages[k]) = limit
                    /\ Len(pages) = k => pc # "done"
                    /\ Len(pages) > k => pages[k + 1] = <<>>
                    /\ Len(pages) <= k + 1
                    /\ Len(pages) = k + 1 => pc \in {"skip", "done"}

--------------------------------------------------------------------------
(* Properties of a call with a resume point that is not well formed *)

InvalidResumeCompiled == pc = "compiledInvalid"

\* C21: when a resume point object is supplied but lacks its sort or its
\* skipValues, compiling fails with an error for every caller filter; it never
\* returns the caller's filter as it would for a first page.
C21InvalidResumePointFails ==
    InvalidResumeCompiled => paginated.threw

--------------------------------------------------------------------------
(* Properties of a sort that is not a field-to-direction object *)

IsArraySort(sort) == sort # <<>> /\ sort[1][1] = IndexKey(0)

\* C22: a sort specification that is an array of [field, direction] pairs is
\* rejected when the sort is normalized, with a failure; no effective sort and
\* no compiled filter are produced from it.
C22ArraySortRejected ==
    (FirstPageQueried /\ IsArraySort(CallerSort)) => paginated.threw

--------------------------------------------------------------------------
(* Properties of the effective sort along a pagination sequence *)

\* the first page of the sequence has been compiled
QueriedOnce == pc # "call" \/ Len(pages) > 0

\* C23: in a pagination sequence that starts with no resume point and feeds
\* back only the resume points of getSkipContent, the effective sort of each
\* page contains _id with direction 1 or -1, and the effective sort of each
\* later page is the effective sort of the page before it (same keys, same
\* order, same directions), hence that of the first page.
C23TieBreakStability ==
    /\ [](QueriedOnce =>
            /\ Has(paginated.paginatedSort, "_id")
            /\ Get(paginated.paginatedSort, "_id") \in {1, -1})
    /\ [][QueriedOnce => paginated'.paginatedSort = paginated.paginatedSort]_vars

C23Witness ==
    /\ Len(pages) = 3
    /\ pages[1] # <<>> /\ pages[2] # <<>> /\ pages[3] = <<>>
    /\ Len(paginated.paginatedSort) = 2
    /\ Get(paginated.paginatedSort, "_id") = -1

--------------------------------------------------------------------------
(* Properties of two sequences that share an instance *)

\* what caller c obtains when its sequence runs alone on the instance: the
\* query of its first page, the resume point of that page, the query of its
\* second page and the resume point of the second page
AloneFirst(c) == getPaginatedQuery(SharedInstance, filter[c], None, options[c])

AloneResumePoint(c) ==
    getSkipContent(pages[c][1], AloneFirst(c).paginatedSort,
                   AloneFirst(c).paginatedLimit)

AloneSecond(c) ==
    getPaginatedQuery(SharedInstance, filter[c], AloneResumePoint(c), options[c])

AloneLastPoint(c) ==
    getSkipContent(pages[c][2], AloneSecond(c).paginatedSort,
                   AloneSecond(c).paginatedLimit)

ObtainsAsAlone(c) ==
    /\ pc[c] \in {"page", "token", "resume"} => paginated[c] = AloneFirst(c)
    /\ pc[c] = "token" =>
          skipToken[c] = encryptSkipContent(SharedInstance, AloneResumePoint(c),
                                            skipToken[c].token[1].iv)
    /\ pc[c] = "resume" => skipContent[c] = AloneResumePoint(c)
    /\ pc[c] = "last" => paginated[c] = AloneSecond(c)
    /\ (pc[c] = "done" /\ Len(pages[c]) = 1) => skipContent[c] = AloneResumePoint(c)
    /\ (pc[c] = "done" /\ Len(pages[c]) = 2) =>
          /\ paginated[c] = AloneSecond(c)
          /\ skipContent[c] = AloneLastPoint(c)
    /\ skipContent[c] # None =>
          /\ Get(skipContent[c][1], "sort") = paginated[c].paginatedSort
          /\ Get(skipContent[c][1], "limit") = paginated[c].paginatedLimit

--------------------------------------------------------------------------
(* Properties of the compiled filter as a selection of documents *)

\* the resume point's first sort key is a descending field with a non-null
\* resume value
DescendingFromDefined ==
    /\ CompiledWithResume
    /\ ~OnlyIdSorted(ResumeSort)
    /\ GetScalar(ResumeSort, ResumeKeyList[1]) = -1
    /\ IsNumber(GetScalar(ResumeSkipValues, ResumeKeyList[1]))

\* C25: when the last document of a page has a non-null value for a
\* descending sort field, every document that matches the caller's filter and
\* has no value (null or absent) for that field is selected by the compiled
\* filter of the next page.
C25DescendingReachesUndefined ==
    DescendingFromDefined =>
        \A d \in DocUniverse :
            (Matches(d, filter) /\ IsNullish(FieldValue(d, ResumeKeyList[1]))) =>
                Matches(d, paginated.paginatedFilter)

\* the keys of the tie-break disjunction by precedence: the key of the
\* equality clause of each level, then the key of the innermost range
TieBreakPrecedence ==
    LET top == Get(TieBreakQuery, "$or")
        levels == Len(ResumeKeyList) - 1
        innermost == OrListOfLevel(top, levels)
    IN  [i \in 1..(levels + 1) |->
            IF i <= levels
            THEN OrListOfLevel(top, i)[Len(OrListOfLevel(top, i))][1][1]
            ELSE innermost[Len(innermost)][2][1]]

\* C26: for every caller sort, also one that lists _id before other fields,
\* the key precedence of the tie-break predicates is the key order of the
\* effective sort returned as paginatedSort.
C26PrecedenceAgreement ==
    (CompiledWithResume /\ ~OnlyIdSorted(ResumeSort)) =>
        TieBreakPrecedence = Keys(paginated.paginatedSort)

\* C27: every document that matches the compiled filter also matches the
\* caller's filter, for every caller filter and every resume point; no caller
\* constraint is dropped or overwritten.
C27OnlyNarrows ==
    (pc = "compiled" /\ ~paginated.threw) =>
        \A d \in DocUniverse :
            Matches(d, paginated.paginatedFilter) => Matches(d, filter)

--------------------------------------------------------------------------
(* Properties of the length of a pagination sequence *)

\* ceil(n / d) for a positive d
CeilDiv(n, d) == (n + d - 1) \div d

\* C28: over an unchanging collection, for every caller filter, sort and
\* positive limit, the page loop fetches at most ceil(N / limit) + 1 pages,
\* N being the number of documents that match the caller's filter; by then
\* getSkipContent has returned none.
C28PageLoopTerminates ==
    Len(pages) > 0 =>
        Len(pages) <= CeilDiv(Len(Unpaginated), paginated.paginatedLimit) + 1

--------------------------------------------------------------------------
(* Properties of the path walk on an atomic value *)

\* the walk of the dotted sort path on the last document reaches a date
\* before the path is exhausted
WalkReachesAtomic ==
    /\ pc \in {"extracted", "threw"}
    /\ FullList
    /\ Has(paginated.paginatedSort, "n.r")
    /\ Has(LastDocument, "n")
    /\ Get(LastDocument, "n").kind = "atomic"

\* C29: if the walk of a dotted sort path on the last document reaches a date
\* before the path is exhausted, the walk stops there and the date is the
\* extracted resume value; the walk does not index into it.
C29AtomicValueIsLeaf ==
    WalkReachesAtomic =>
        /\ pc = "extracted"
        /\ skipContent # None
        /\ GetScalar(Get(skipContent[1], "skipValues"), "n.r")
              = Get(Get(LastDocument, "n").entries, "$date")

--------------------------------------------------------------------------
(* Properties of the lists of alternatives *)

\* the list has an alternative, and so has every list nested in it
RECURSIVE OrListsNonEmpty(_)
OrListsNonEmpty(orList) ==
    /\ Len(orList) >= 1
    /\ \A j \in 1..Len(orList) :
          Has(orList[j], "$or") => OrListsNonEmpty(Get(orList[j], "$or"))

\* C30: every $or list that the filter compiler generates, at every nesting
\* level, has at least one alternative, for every sort with a non-_id field
\* and every combination of directions and null or non-null resume values.
C30OrListsNonEmpty ==
    (CompiledWithResume /\ ~OnlyIdSorted(ResumeSort)) =>
        OrListsNonEmpty(Get(TieBreakQuery, "$or"))

\* both non-_id keys are descending with null resume values: no list has a
\* range alternative, each has its equality branch only
C30Witness ==
    /\ CompiledWithResume
    /\ Len(ResumeKeyList) = 3
    /\ \A i \in 1..2 :
          /\ GetScalar(ResumeSort, ResumeKeyList[i]) = -1
          /\ IsNullish(GetScalar(ResumeSkipValues, ResumeKeyList[i]))
    /\ Len(Get(TieBreakQuery, "$or")) = 1
    /\ Len(Get(Get(TieBreakQuery, "$or")[1], "$or")) = 1

====
